---- MODULE Spec2Model ----
(***************************************************************************)
(* A model of src/serial-prober.js: the SerialProber class (open with      *)
(* bounded lock retry, the timed byte-pattern probe, close, and the        *)
(* probeAll scan with its metadata filter), run on the JavaScript event    *)
(* loop: one macrotask (a timer, an I/O callback, a call from the caller)  *)
(* runs at a time, and the promise reactions it queues (microtasks) run    *)
(* before the next macrotask.                                              *)
(***************************************************************************)
EXTENDS Integers, Sequences, FiniteSets, TLC

\* ------------------------------------------------------------------ bounds

\* Direct open() calls the caller makes, one after the other.
MaxCalls == 1
\* Ports SerialPort.list() reports to one probeAll.
MaxPorts == 3
\* Bytes the ports deliver in one run, over all 'data' events.
MaxData == 2
\* 'Cannot lock port' errors the transport reports in one run.
MaxLockErrors == 5

\* ------------------------------------------------------- program constants

MAX_OPEN_ATTEMPTS == 5
LOCK_RETRY_MS == 1000
PROBE_TIMEOUT_MS == 500

\* ------------------------------------------------------------------ strings
\* A JavaScript string is the sequence of its characters.

DevTtyUsb == <<"/", "d", "e", "v", "/", "t", "t", "y", ".", "u", "s", "b">>
DevTty == <<"/", "d", "e", "v", "/", "t", "t", "y">>
DevCu == <<"/", "d", "e", "v", "/", "c", "u">>

\* String.prototype.startsWith
StartsWith(s, p) == Len(s) >= Len(p) /\ SubSeq(s, 1, Len(p)) = p

\* The places where p occurs in s as a contiguous run.
Occurrences(s, p) ==
  {i \in 1..(Len(s) - Len(p) + 1) : SubSeq(s, i, i + Len(p) - 1) = p}

\* The first place where p occurs in s, 0 when it does not.
IndexOf(s, p) ==
  IF Occurrences(s, p) = {} THEN 0
  ELSE CHOOSE i \in Occurrences(s, p) : \A j \in Occurrences(s, p) : i <= j

\* String.prototype.replace with a string pattern: the first occurrence only.
ReplaceFirst(s, from, to) ==
  IF IndexOf(s, from) = 0 THEN s
  ELSE SubSeq(s, 1, IndexOf(s, from) - 1) \o to
       \o SubSeq(s, IndexOf(s, from) + Len(from), Len(s))

\* Buffer.prototype.includes: an empty needle is found in any buffer.
BufferIncludes(data, match) == Len(match) = 0 \/ Occurrences(data, match) # {}

\* Buffer.concat([data, chunk])
BufferConcat(data, chunk) == data \o chunk

\* ------------------------------------------------------- filter (166-195)
\* A port descriptor is a function from its own property names to values; a
\* value is [type, chars]: its typeof and its characters.  A filter is a
\* sequence of groups, a group the sequence of its [key, re] entries, and a
\* pattern re is [src, head, tail]: the literal src, anchored with ^ when head
\* and with $ when tail.

Str(chars) == [type |-> "string", chars |-> chars]
Num(chars) == [type |-> "number", chars |-> chars]

\* port.hasOwnProperty(key)
HasOwnProperty(port, key) == key \in DOMAIN port

EndsWith(s, p) == Len(s) >= Len(p) /\ SubSeq(s, Len(s) - Len(p) + 1, Len(s)) = p

\* String.prototype.match(re) finds a match (is not null).
StringMatch(chars, re) ==
  CASE re.head /\ re.tail -> chars = re.src
    [] re.head /\ ~re.tail -> StartsWith(chars, re.src)
    [] ~re.head /\ re.tail -> EndsWith(chars, re.src)
    [] OTHER -> Len(re.src) = 0 \/ Occurrences(chars, re.src) # {}

\* Lines 146-148 with the test made for '/dev/tty' alone.
NormalizeAnyTty(port) ==
  IF StartsWith(port["comName"].chars, DevTty)
  THEN [port EXCEPT !["comName"] = Str(ReplaceFirst(@.chars, DevTty, DevCu))]
  ELSE port

\* Lines 146-148: probeAll rewrites port.comName in place.
NormalizeComName(port) ==
  IF StartsWith(port["comName"].chars, DevTtyUsb)
  THEN [port EXCEPT !["comName"] = Str(ReplaceFirst(@.chars, DevTty, DevCu))]
  ELSE port

\* Lines 171-173: serialPortMatchesFilter rewrites port.comName in place.
FilterNormalizeComName(port) ==
  IF StartsWith(port["comName"].chars, DevTtyUsb)
  THEN [port EXCEPT !["comName"] = Str(ReplaceFirst(@.chars, DevTty, DevCu))]
  ELSE port

\* Lines 175-189 with the absent-key test dropped.
RECURSIVE GroupMatchesIgnoringAbsent(_, _, _)
GroupMatchesIgnoringAbsent(port, entries, k) ==
  IF k > Len(entries) THEN TRUE
  ELSE IF ~HasOwnProperty(port, entries[k].key)
       THEN GroupMatchesIgnoringAbsent(port, entries, k + 1)
  ELSE IF port[entries[k].key].type # "string" THEN FALSE
  ELSE IF ~StringMatch(port[entries[k].key].chars, entries[k].re) THEN FALSE
  ELSE GroupMatchesIgnoringAbsent(port, entries, k + 1)

\* Lines 175-189: the inner loop over one group's entries from entry k on;
\* match stays true only when no entry breaks out.
RECURSIVE GroupMatches(_, _, _)
GroupMatches(port, entries, k) ==
  IF k > Len(entries) THEN TRUE
  ELSE IF ~HasOwnProperty(port, entries[k].key) THEN FALSE
  ELSE IF port[entries[k].key].type # "string" THEN FALSE
  ELSE IF ~StringMatch(port[entries[k].key].chars, entries[k].re) THEN FALSE
  ELSE GroupMatches(port, entries, k + 1)

\* Lines 174-194: the outer loop over the groups from group g on.
RECURSIVE FilterLoop(_, _, _)
FilterLoop(port, filter, g) ==
  IF g > Len(filter) THEN FALSE
  ELSE IF GroupMatches(port, filter[g], 1) THEN TRUE
  ELSE FilterLoop(port, filter, g + 1)

\* serialPortMatchesFilter's return value for a port and this.param.filter.
serialPortMatchesFilter(port, filter) ==
  FilterLoop(FilterNormalizeComName(port), filter, 1)

\* ------------------------------------------------------------ input pools

Re(src, head, tail) == [src |-> src, head |-> head, tail |-> tail]
Entry(key, re) == [key |-> key, re |-> re]

\* [{vendor: /^FTDI$/}, {product: /^CP210/}]
FilterVendorOrProduct ==
  << <<Entry("vendor", Re(<<"F", "T", "D", "I">>, TRUE, TRUE))>>,
     <<Entry("product", Re(<<"C", "P", "2", "1", "0">>, TRUE, FALSE))>> >>

\* [{vendor: 'FTDI', comName: /^\/dev\/cu/}]
FilterVendorAndPath ==
  << <<Entry("vendor", Re(<<"F", "T", "D", "I">>, FALSE, FALSE)),
       Entry("comName", Re(DevCu, TRUE, FALSE))>> >>

PortTtyUsbFtdi ==
  [k \in {"comName", "vendor"} |->
     IF k = "comName" THEN Str(DevTtyUsb \o <<"A">>)
     ELSE Str(<<"F", "T", "D", "I">>)]

PortOtherCp ==
  [k \in {"comName", "vendor", "product"} |->
     CASE k = "comName" -> Str(DevTty \o <<"S", "0">>)
       [] k = "vendor" -> Str(<<"O", "t", "h", "e", "r">>)
       [] OTHER -> Str(<<"C", "P", "2", "1", "0", "4">>)]

PortNumericVendor ==
  [k \in {"comName", "vendor", "product"} |->
     CASE k = "comName" -> Str(DevCu \o <<".", "u", "s", "b", "B">>)
       [] k = "vendor" -> Num(<<"F", "T", "D", "I">>)
       [] OTHER -> Str(<<"X", "C", "P", "2", "1", "0">>)]

PortCom ==
  [k \in {"comName", "product"} |->
     IF k = "comName" THEN Str(<<"C", "O", "M", "3">>)
     ELSE Num(<<"C", "P", "2", "1", "0">>)]

PortPool == {PortTtyUsbFtdi, PortOtherCp, PortNumericVendor, PortCom}

\* The port lists SerialPort.list() may resolve to.
RECURSIVE SeqsUpTo(_, _)
SeqsUpTo(S, n) ==
  IF n = 0 THEN {<<>>}
  ELSE SeqsUpTo(S, n - 1)
       \cup {Append(q, x) : q \in {r \in SeqsUpTo(S, n - 1) : Len(r) = n - 1}, x \in S}

\* The order a host enumerates its ports in, forwards or backwards.
PortOrder == <<PortTtyUsbFtdi, PortNumericVendor, PortOtherCp, PortCom>>
Position(port) == CHOOSE i \in DOMAIN PortOrder : PortOrder[i] = port

\* A host lists a port once, and its ports in one of the two orders.
PortLists ==
  {q \in SeqsUpTo(PortPool, MaxPorts) :
     \/ \A i, j \in DOMAIN q : i < j => Position(q[i]) < Position(q[j])
     \/ \A i, j \in DOMAIN q : i < j => Position(q[i]) > Position(q[j])}

Bytes == {1, 2}
\* The chunks one 'data' event may carry.
Chunks == SeqsUpTo(Bytes, 2) \ {<<>>}

\* The paths the caller passes to open() directly.
PathPool == {DevCu \o <<".", "u", "s", "b", "A">>}

\* err.message of a failed open, as the sequence of its parts.
CannotLockPort == <<"Cannot lock port">>
LockErrors == {<<"Error: Resource temporarily unavailable ">> \o CannotLockPort}
OtherErrors == {<<"Error: Permission denied, cannot open ">>,
                <<"Error: No such file or directory, cannot open ">>}
EnumError == <<"Error: enumeration failed">>

\* Line 55 taking every error for a lock error.
IsLockErrorAlways(message) == TRUE
\* err.message.includes('Cannot lock port') (line 55)
IsLockError(message) == Occurrences(message, CannotLockPort) # {}

\* lockAttempt >= MAX_OPEN_ATTEMPTS (line 58), off by one.
GiveUpLate(attempt) == attempt > MAX_OPEN_ATTEMPTS
\* lockAttempt >= MAX_OPEN_ATTEMPTS (line 58)
GiveUp(attempt) == attempt >= MAX_OPEN_ATTEMPTS

\* -------------------------------------------------------------------- state

VARIABLES
  param,        \* this.param: the probe specification given to the constructor
  portName,     \* this.portName
  lockAttempt,  \* this.lockAttempt
  serialPort,   \* this.serialPort: a handle (an index of handles), 0 when unset
  lockTimer,    \* this.lockTimer: the session whose retry timer was set last
  handles,      \* the SerialPort objects made so far, in order of creation
  sessions,     \* one record per open() call: its promises, callbacks, timers
  micro,        \* the promise reactions queued and not yet run
  scan,         \* the probeAll call: the ports as the host listed them, the
                \* ports array, the loop index, serialPorts, the error
  transport,    \* what the host's serial transport has done so far
  hist          \* per open() call, what the transport and the timers did

vars == <<param, portName, lockAttempt, serialPort, lockTimer, handles,
          sessions, micro, scan, transport, hist>>

Undefined == <<"undefined">>
Null == <<"null">>

\* this.param as the constructor stores it (lines 20-22).
ProbeSpec(rsp, filter) ==
  [name |-> <<"Z">>, baudRate |-> 115200, probeCmd |-> <<1>>,
   probeRsp |-> rsp, filter |-> filter]

Params ==
  {ProbeSpec(<<2>>, FilterVendorOrProduct),
   ProbeSpec(<<1, 2>>, FilterVendorAndPath)}

\* A SerialPort object as new SerialPort(path, ...) returns it (line 50):
\* besides isOpen and its 'data' listeners, whether the host ever opened it,
\* the writes made to it and the calls of its close().
NewHandle(path, s) ==
  [path |-> path, sess |-> s, isOpen |-> FALSE, opened |-> FALSE,
   listeners |-> {}, writes |-> 0, closeCalls |-> 0]

\* The promises and closures of one open() call (lines 38-44, 100-109):
\* promise is the one the executor settles, outcome the one open() returns;
\* retry is the delay of the outstanding retry timer (0: none), timer the
\* state of the probe's deadline timer and delay the delay it was set with.
NewSession ==
  [promise |-> "pending", value |-> 0, reason |-> <<>>,
   outcome |-> "pending", outValue |-> 0, outReason |-> <<>>,
   opening |-> 0, retry |-> 0,
   probe |-> "none", probeReason |-> <<>>, timer |-> "none", delay |-> 0,
   data |-> <<>>]

\* What was seen of one open() call from outside: who called it (and for
\* which port of the scan), the open attempts made, the errors the transport
\* reported, the retry timers set and fired, the bytes delivered while the
\* deadline was outstanding and the 'data' events they came in, whether the
\* deadline timer fired, whether the caller has seen the outcome, and
\* whether the caller called close() while the call, one of the caller's own,
\* waited on a retry timer.
NewHist(origin, idx) ==
  [origin |-> origin, port |-> idx, attempts |-> 0, errors |-> <<>>,
   scheduled |-> 0, fired |-> 0, received |-> <<>>, chunks |-> 0,
   deadline |-> FALSE,
   observed |-> FALSE, abandoned |-> FALSE]

Init ==
  /\ param \in Params
  /\ portName = Undefined
  /\ lockAttempt = 0
  /\ serialPort = 0
  /\ lockTimer = 0
  /\ handles = <<>>
  /\ sessions = <<>>
  /\ micro = <<>>
  /\ scan = [state |-> "idle", listed |-> <<>>, ports |-> <<>>, i |-> 0,
             serialPorts |-> <<>>, error |-> <<>>]
  /\ transport = [locks |-> 0, bytes |-> 0]
  /\ hist = <<>>

Reaction(kind, s) == [kind |-> kind, sess |-> s]

\* ------------------------------------------------------- open / tryToOpen

\* Lines 47-53 with this.serialPort left alone while it is an open port.
TryToOpenKeepsOpenPort(s, path, ss, hh) ==
  /\ handles' = Append(handles, NewHandle(path, s))
  /\ serialPort' = IF serialPort # 0 /\ handles[serialPort].isOpen
                   THEN serialPort ELSE Len(handles) + 1
  /\ sessions' = [ss EXCEPT ![s].opening = Len(handles) + 1]
  /\ hist' = [hh EXCEPT ![s].attempts = @ + 1]

\* tryToOpen up to the constructor call (lines 47-53): a new SerialPort for
\* path becomes this.serialPort and its open callback is outstanding.
TryToOpen(s, path, ss, hh) ==
  /\ handles' = Append(handles, NewHandle(path, s))
  /\ serialPort' = Len(handles) + 1
  /\ sessions' = [ss EXCEPT ![s].opening = Len(handles) + 1]
  /\ hist' = [hh EXCEPT ![s].attempts = @ + 1]

\* open(portName) up to its return (lines 32-39).
Open(path, origin, idx) ==
  /\ portName' = path
  /\ lockAttempt' = 0
  /\ TryToOpen(Len(sessions) + 1, path, Append(sessions, NewSession),
               Append(hist, NewHist(origin, idx)))

\* reject(reason) of the open() executor: a settled promise stays as it is.
Rejected(ss, s, reason) ==
  IF ss[s].promise = "pending"
  THEN [ss EXCEPT ![s].promise = "rejected", ![s].reason = reason]
  ELSE ss

\* The reaction reject(reason) queues: the .catch of lines 40-44.
RejectReactions(ss, s) ==
  IF ss[s].promise = "pending" THEN <<Reaction("openCatch", s)>> ELSE <<>>

\* Lines 62-64 with the retry made at once instead of from the timer.
LockRetryImmediate(s, ss, hh) ==
  /\ TryToOpen(s, portName, ss, hh)
  /\ UNCHANGED lockTimer

\* Lines 62-64 without the setTimeout: the lock error is counted and nothing
\* is scheduled.
LockRetryNoTimer(s, ss, hh) ==
  /\ sessions' = ss
  /\ hist' = hh
  /\ UNCHANGED <<lockTimer, handles, serialPort>>

\* Lines 62-64: the retry is left to a timer of LOCK_RETRY_MS.
LockRetry(s, ss, hh) ==
  /\ lockTimer' = s
  /\ sessions' = [ss EXCEPT ![s].retry = LOCK_RETRY_MS]
  /\ hist' = [hh EXCEPT ![s].scheduled = @ + 1]
  /\ UNCHANGED <<handles, serialPort>>

\* Lines 53-71 with the retry timer set on every lock error, also on the one
\* that rejects.
OpenCallbackErrorAlwaysRetries(s, message) ==
  /\ micro = <<>>
  /\ sessions[s].opening # 0
  /\ IF message \in LockErrors
     THEN /\ transport.locks < MaxLockErrors
          /\ transport' = [transport EXCEPT !.locks = @ + 1]
     ELSE transport' = transport
  /\ LET ss == [sessions EXCEPT ![s].opening = 0]
         hh == [hist EXCEPT ![s].errors = Append(@, message)]
     IN IF IsLockError(message)
        THEN /\ lockAttempt' = lockAttempt + 1
             /\ LockRetry(s, IF GiveUp(lockAttempt + 1)
                              THEN Rejected(ss, s, message) ELSE ss, hh)
             /\ micro' = IF GiveUp(lockAttempt + 1)
                         THEN RejectReactions(ss, s) ELSE micro
        ELSE /\ sessions' = Rejected(ss, s, message)
             /\ micro' = RejectReactions(ss, s)
             /\ hist' = hh
             /\ UNCHANGED <<lockAttempt, lockTimer, handles, serialPort>>
  /\ UNCHANGED <<param, portName, scan>>

\* The open callback called with an error (lines 53-71).
OpenCallbackError(s, message) ==
  /\ micro = <<>>
  /\ sessions[s].opening # 0
  /\ IF message \in LockErrors
     THEN /\ transport.locks < MaxLockErrors
          /\ transport' = [transport EXCEPT !.locks = @ + 1]
     ELSE transport' = transport
  /\ LET ss == [sessions EXCEPT ![s].opening = 0]
         hh == [hist EXCEPT ![s].errors = Append(@, message)]
     IN IF IsLockError(message)
        THEN /\ lockAttempt' = lockAttempt + 1
             /\ IF GiveUp(lockAttempt + 1)
                THEN /\ sessions' = Rejected(ss, s, message)
                     /\ micro' = RejectReactions(ss, s)
                     /\ hist' = hh
                     /\ UNCHANGED <<lockTimer, handles, serialPort>>
                ELSE /\ LockRetry(s, ss, hh)
                     /\ micro' = micro
        ELSE /\ sessions' = Rejected(ss, s, message)
             /\ micro' = RejectReactions(ss, s)
             /\ hist' = hh
             /\ UNCHANGED <<lockAttempt, lockTimer, handles, serialPort>>
  /\ UNCHANGED <<param, portName, scan>>

\* The retry timer fires (lines 62-64).
LockTimerFires(s) ==
  /\ micro = <<>>
  /\ sessions[s].retry # 0
  /\ TryToOpen(s, portName, [sessions EXCEPT ![s].retry = 0],
               [hist EXCEPT ![s].fired = @ + 1])
  /\ UNCHANGED <<param, transport, portName, lockAttempt, lockTimer, micro, scan>>

\* Lines 82-89 without the isOpen test and without forgetting the port.
CloseOfKeepsPort(hs, sp, pn) ==
  IF sp # 0
  THEN [handles |-> [hs EXCEPT ![sp].isOpen = FALSE, ![sp].closeCalls = @ + 1],
        serialPort |-> sp, portName |-> pn]
  ELSE [handles |-> hs, serialPort |-> sp, portName |-> pn]

\* What close() (lines 82-89) makes of the port objects hs, this.serialPort
\* sp and this.portName pn.
CloseOf(hs, sp, pn) ==
  IF sp # 0 /\ hs[sp].isOpen
  THEN [handles |-> [hs EXCEPT ![sp].isOpen = FALSE, ![sp].closeCalls = @ + 1],
        serialPort |-> 0, portName |-> Null]
  ELSE [handles |-> hs, serialPort |-> sp, portName |-> pn]

\* close() (lines 82-89).
Close ==
  /\ handles' = CloseOf(handles, serialPort, portName).handles
  /\ serialPort' = CloseOf(handles, serialPort, portName).serialPort
  /\ portName' = CloseOf(handles, serialPort, portName).portName

\* ------------------------------------------------------------------ probe

TypeErrorMessage == <<"TypeError: Cannot read property 'on' of null">>

\* The deadline's message (lines 102-103).
TimeoutMessage ==
  <<"SerialProber: timeout: ">> \o param.name
    \o <<" dongle not detected on ">> \o portName

\* probe() without the deadline timer of lines 101-106.
ProbeNoDeadline(s, hs, ss) ==
  /\ serialPort # 0
  /\ handles' = [hs EXCEPT ![serialPort].listeners = @ \cup {s},
                           ![serialPort].writes = @ + 1]
  /\ sessions' = [ss EXCEPT ![s].probe = "pending", ![s].data = <<>>]
  /\ micro' = <<>>

\* probe() up to its return (lines 99-124), on handles hs: the deadline is
\* set, the listener registered on this.serialPort and probeCmd written.
Probe(s, hs, ss) ==
  IF serialPort = 0
  THEN /\ handles' = hs
       /\ sessions' = [ss EXCEPT ![s].timer = "pending",
                                 ![s].delay = PROBE_TIMEOUT_MS,
                                 ![s].probe = "rejected",
                                 ![s].probeReason = TypeErrorMessage]
       /\ micro' = <<Reaction("probeCatch", s)>>
  ELSE /\ handles' = [hs EXCEPT ![serialPort].listeners = @ \cup {s},
                                ![serialPort].writes = @ + 1]
       /\ sessions' = [ss EXCEPT ![s].timer = "pending",
                                 ![s].delay = PROBE_TIMEOUT_MS,
                                 ![s].probe = "pending",
                                 ![s].data = <<>>]
       /\ micro' = <<>>

\* The open callback called without an error (lines 53, 72-78).
OpenCallbackOk(s) ==
  /\ micro = <<>>
  /\ sessions[s].opening # 0
  /\ Probe(s, [handles EXCEPT ![sessions[s].opening].isOpen = TRUE,
                               ![sessions[s].opening].opened = TRUE],
           [sessions EXCEPT ![s].opening = 0])
  /\ UNCHANGED <<param, transport, portName, lockAttempt, serialPort, lockTimer, scan,
                 hist>>

\* The 'data' listener without the clearTimeout of line 114.
OnDataNoClear(sess, chunk) ==
  IF BufferIncludes(BufferConcat(sess.data, chunk), param.probeRsp)
  THEN [sess EXCEPT !.data = BufferConcat(sess.data, chunk),
                    !.probe = IF @ = "pending" THEN "resolved" ELSE @]
  ELSE [sess EXCEPT !.data = BufferConcat(sess.data, chunk)]

\* The 'data' listener with the test made on the new chunk alone.
OnDataPerChunk(sess, chunk) ==
  IF BufferIncludes(chunk, param.probeRsp)
  THEN [sess EXCEPT !.data = BufferConcat(sess.data, chunk),
                    !.timer = IF @ = "pending" THEN "cleared" ELSE @,
                    !.probe = IF @ = "pending" THEN "resolved" ELSE @]
  ELSE [sess EXCEPT !.data = BufferConcat(sess.data, chunk)]

\* The 'data' listener of one probe (lines 110-117).
OnData(sess, chunk) ==
  IF BufferIncludes(BufferConcat(sess.data, chunk), param.probeRsp)
  THEN [sess EXCEPT !.data = BufferConcat(sess.data, chunk),
                    !.timer = IF @ = "pending" THEN "cleared" ELSE @,
                    !.probe = IF @ = "pending" THEN "resolved" ELSE @]
  ELSE [sess EXCEPT !.data = BufferConcat(sess.data, chunk)]

\* The sessions of S in the order their listeners were registered.
RECURSIVE InOrder(_)
InOrder(S) ==
  IF S = {} THEN <<>>
  ELSE LET m == CHOOSE x \in S : \A y \in S : x <= y
       IN <<m>> \o InOrder(S \ {m})

\* The reactions the listeners of L queue: one for each probe they resolve.
RECURSIVE ResolveReactions(_, _)
ResolveReactions(order, ss) ==
  IF order = <<>> THEN <<>>
  ELSE (IF sessions[Head(order)].probe = "pending"
           /\ ss[Head(order)].probe = "resolved"
        THEN <<Reaction("probeThen", Head(order))>> ELSE <<>>)
       \o ResolveReactions(Tail(order), ss)

\* A 'data' event of an open port: every listener on it runs (110-117).
DataArrives(h, chunk) ==
  /\ micro = <<>>
  /\ handles[h].isOpen
  /\ handles[h].listeners # {}
  /\ transport.bytes + Len(chunk) <= MaxData
  /\ transport' = [transport EXCEPT !.bytes = @ + Len(chunk)]
  /\ sessions' = [s \in DOMAIN sessions |->
                    IF s \in handles[h].listeners
                    THEN OnData(sessions[s], chunk) ELSE sessions[s]]
  /\ micro' = ResolveReactions(InOrder(handles[h].listeners), sessions')
  /\ hist' = [s \in DOMAIN hist |->
                IF s \in handles[h].listeners /\ sessions[s].timer = "pending"
                THEN [hist[s] EXCEPT !.received = @ \o chunk, !.chunks = @ + 1]
                ELSE hist[s]]
  /\ UNCHANGED <<param, portName, lockAttempt, serialPort, lockTimer, handles,
                 scan>>

\* Lines 101-106 with a timer that repeats (setInterval for setTimeout).
DeadlineFiresRepeating(s) ==
  /\ micro = <<>>
  /\ sessions[s].timer = "pending"
  /\ sessions' = [sessions EXCEPT
                    ![s].probe = IF @ = "pending" THEN "rejected" ELSE @,
                    ![s].probeReason =
                       IF sessions[s].probe = "pending" THEN TimeoutMessage ELSE @]
  /\ micro' = IF sessions[s].probe = "pending"
              THEN <<Reaction("probeCatch", s)>> ELSE <<>>
  /\ hist' = [hist EXCEPT ![s].deadline = TRUE]
  /\ UNCHANGED <<param, transport, portName, lockAttempt, serialPort,
                 lockTimer, handles, scan>>

\* The deadline of PROBE_TIMEOUT_MS fires (lines 101-106).
DeadlineFires(s) ==
  /\ micro = <<>>
  /\ sessions[s].timer = "pending"
  /\ sessions' = [sessions EXCEPT
                    ![s].timer = "fired",
                    ![s].probe = IF @ = "pending" THEN "rejected" ELSE @,
                    ![s].probeReason =
                       IF sessions[s].probe = "pending" THEN TimeoutMessage ELSE @]
  /\ micro' = IF sessions[s].probe = "pending"
              THEN <<Reaction("probeCatch", s)>> ELSE <<>>
  /\ hist' = [hist EXCEPT ![s].deadline = TRUE]
  /\ UNCHANGED <<param, transport, portName, lockAttempt, serialPort,
                 lockTimer, handles, scan>>

\* ------------------------------------------------------ promise reactions
\* The reaction at the head of the queue runs; no macrotask runs before the
\* queue is empty.

Next1(kind) == micro # <<>> /\ Head(micro).kind = kind

\* probe().then(...) (lines 73-75): resolve(this.serialPort).
ProbeThen ==
  /\ Next1("probeThen")
  /\ LET s == Head(micro).sess
     IN IF sessions[s].promise = "pending"
        THEN /\ sessions' = [sessions EXCEPT ![s].promise = "resolved",
                                             ![s].value = serialPort]
             /\ micro' = Tail(micro) \o <<Reaction("openPass", s)>>
        ELSE /\ sessions' = sessions
             /\ micro' = Tail(micro)
  /\ UNCHANGED <<param, transport, portName, lockAttempt, serialPort, lockTimer, handles,
                 scan, hist>>

\* Lines 76-78 with the failed probe answered by another tryToOpen.
ProbeCatchRetries ==
  /\ Next1("probeCatch")
  /\ TryToOpen(Head(micro).sess, portName, sessions, hist)
  /\ micro' = Tail(micro)
  /\ UNCHANGED <<param, transport, portName, lockAttempt, lockTimer, scan>>

\* probe()...catch(...) (lines 76-78): reject(err).
ProbeCatch ==
  /\ Next1("probeCatch")
  /\ LET s == Head(micro).sess
     IN /\ sessions' = Rejected(sessions, s, sessions[s].probeReason)
        /\ micro' = Tail(micro) \o RejectReactions(sessions, s)
  /\ UNCHANGED <<param, transport, portName, lockAttempt, serialPort, lockTimer, handles,
                 scan, hist>>

\* Lines 40-44 without the call of close().
RethrowOnly(s) ==
  /\ sessions' = [sessions EXCEPT ![s].outcome = "rejected",
                                  ![s].outReason = sessions[s].reason]
  /\ UNCHANGED <<handles, serialPort, portName>>

\* The .catch of open() (lines 40-44): close(), then the error again.
CloseAndRethrow(s) ==
  /\ Close
  /\ sessions' = [sessions EXCEPT ![s].outcome = "rejected",
                                  ![s].outReason = sessions[s].reason]

OpenCatch ==
  /\ Next1("openCatch")
  /\ CloseAndRethrow(Head(micro).sess)
  /\ micro' = Tail(micro) \o <<Reaction("await", Head(micro).sess)>>
  /\ UNCHANGED <<param, transport, lockAttempt, lockTimer, scan, hist>>

\* The promise open() returns takes the value of the executor's promise when
\* that one is resolved (lines 38-40: .catch passes a value through).
OpenPass ==
  /\ Next1("openPass")
  /\ LET s == Head(micro).sess
     IN /\ sessions' = [sessions EXCEPT ![s].outcome = "resolved",
                                        ![s].outValue = sessions[s].value]
        /\ micro' = Tail(micro) \o <<Reaction("await", s)>>
  /\ UNCHANGED <<param, transport, portName, lockAttempt, serialPort, lockTimer, handles,
                 scan, hist>>

\* ---------------------------------------------------------------- probeAll

\* Lines 141-149 from port j on: each port's comName is rewritten in place
\* and the filter applied, up to the first port that passes (i) or the end.
RECURSIVE ScanTo(_, _)
ScanTo(ports, j) ==
  IF j > Len(ports) THEN [ports |-> ports, i |-> j]
  ELSE LET ps == [ports EXCEPT ![j] = FilterNormalizeComName(NormalizeComName(@))]
       IN IF serialPortMatchesFilter(NormalizeComName(ports[j]), param.filter)
          THEN [ports |-> ps, i |-> j]
          ELSE ScanTo(ps, j + 1)

\* The for loop of probeAll from port j on, up to its next await or its
\* return (lines 141-163).
ScanLoop(ports, j, results) ==
  LET r == ScanTo(ports, j)
  IN IF r.i > Len(ports)
     THEN /\ scan' = [scan EXCEPT !.state = "returned", !.ports = r.ports,
                                  !.i = r.i, !.serialPorts = results,
                                  !.listed = IF j = 1 THEN ports ELSE @]
          /\ UNCHANGED <<portName, lockAttempt, serialPort, handles, sessions,
                         hist>>
     ELSE /\ scan' = [scan EXCEPT !.state = "running", !.ports = r.ports,
                                  !.i = r.i, !.serialPorts = results,
                                  !.listed = IF j = 1 THEN ports ELSE @]
          /\ Open(r.ports[r.i]["comName"].chars, "scan", r.i)

\* The caller calls probeAll() (lines 138-140): SerialPort.list() is awaited.
CallProbeAll ==
  /\ micro = <<>>
  /\ scan.state = "idle"
  /\ sessions = <<>>
  /\ scan' = [scan EXCEPT !.state = "listing"]
  /\ UNCHANGED <<param, transport, portName, lockAttempt, serialPort, lockTimer, handles,
                 sessions, micro, hist>>

\* SerialPort.list() rejects: the await of line 140 throws out of probeAll.
ListRejects ==
  /\ micro = <<>>
  /\ scan.state = "listing"
  /\ scan' = [scan EXCEPT !.state = "rejected", !.error = EnumError]
  /\ UNCHANGED <<param, transport, portName, lockAttempt, serialPort, lockTimer, handles,
                 sessions, micro, hist>>

\* SerialPort.list() resolves to ports and the loop starts (lines 140-141).
ListResolves(ports) ==
  /\ micro = <<>>
  /\ scan.state = "listing"
  /\ ScanLoop(ports, 1, <<>>)
  /\ UNCHANGED <<param, transport, lockTimer, micro>>

\* Lines 151-160 with the catch leaving the loop.
ScanAfterOpenStopOnError(s) ==
  IF sessions[s].outcome = "resolved"
  THEN ScanLoop(scan.ports, scan.i + 1,
                Append(scan.serialPorts,
                       [port |-> scan.ports[scan.i],
                        serialPort |-> sessions[s].outValue]))
  ELSE /\ scan' = [scan EXCEPT !.state = "rejected",
                               !.error = sessions[s].outReason]
       /\ UNCHANGED <<portName, lockAttempt, serialPort, handles, sessions, hist>>

\* Lines 151-160 with the result put at the front of serialPorts.
ScanAfterOpenUnshift(s) ==
  ScanLoop(scan.ports, scan.i + 1,
           IF sessions[s].outcome = "resolved"
           THEN <<[port |-> scan.ports[scan.i],
                   serialPort |-> sessions[s].outValue]>> \o scan.serialPorts
           ELSE scan.serialPorts)

\* probeAll after await this.open(...) (lines 151-160): the result is pushed
\* or the error swallowed, and the loop goes on.
ScanAfterOpen(s) ==
  ScanLoop(scan.ports, scan.i + 1,
           IF sessions[s].outcome = "resolved"
           THEN Append(scan.serialPorts,
                       [port |-> scan.ports[scan.i],
                        serialPort |-> sessions[s].outValue])
           ELSE scan.serialPorts)

\* Lines 150-151 without the await: the loop goes on to the next port while
\* the open() it called is still pending.
ScanResumesEarly ==
  /\ micro = <<>>
  /\ scan.state = "running"
  /\ ScanLoop(scan.ports, scan.i + 1, scan.serialPorts)
  /\ micro' = micro
  /\ UNCHANGED <<param, transport, lockTimer>>

\* probeAll resumes after await this.open(...) (lines 150-162).
ScanResumes ==
  /\ Next1("await")
  /\ hist[Head(micro).sess].origin = "scan"
  /\ ScanAfterOpen(Head(micro).sess)
  /\ micro' = Tail(micro)
  /\ UNCHANGED <<param, transport, lockTimer>>

\* ------------------------------------------------------------- the caller

\* The caller calls open(path): one call at a time, not beside probeAll, and
\* not after it has abandoned a call.
CallOpen(path) ==
  /\ micro = <<>>
  /\ scan.state = "idle"
  /\ Len(sessions) < MaxCalls
  /\ \A s \in DOMAIN sessions :
       sessions[s].outcome # "pending" /\ ~hist[s].abandoned
  /\ Open(path, "direct", 0)
  /\ UNCHANGED <<param, transport, lockTimer, micro, scan>>

\* The caller's reaction to the promise open() returned.
CallerObserves ==
  /\ Next1("await")
  /\ hist[Head(micro).sess].origin = "direct"
  /\ hist' = [hist EXCEPT ![Head(micro).sess].observed = TRUE]
  /\ micro' = Tail(micro)
  /\ UNCHANGED <<param, transport, portName, lockAttempt, serialPort, lockTimer, handles,
                 sessions, scan>>

\* The caller calls close() (lines 82-89); an open() call of the caller's
\* own that waits on its retry timer is noted as abandoned.
CallClose ==
  /\ micro = <<>>
  /\ Close
  /\ hist' = [s \in DOMAIN hist |->
                IF sessions[s].retry # 0 /\ hist[s].origin = "direct"
                THEN [hist[s] EXCEPT !.abandoned = TRUE] ELSE hist[s]]
  /\ UNCHANGED <<param, transport, lockAttempt, lockTimer, sessions, micro, scan>>

\* -------------------------------------------------------- the event loop

Next ==
  \/ \E path \in PathPool : CallOpen(path)
  \/ CallClose
  \/ CallProbeAll
  \/ ListRejects
  \/ \E ports \in PortLists : ListResolves(ports)
  \/ \E s \in DOMAIN sessions :
       \E message \in LockErrors \cup OtherErrors : OpenCallbackError(s, message)
  \/ \E s \in DOMAIN sessions : OpenCallbackOk(s)
  \/ \E s \in DOMAIN sessions : LockTimerFires(s)
  \/ \E h \in DOMAIN handles : \E chunk \in Chunks : DataArrives(h, chunk)
  \/ \E s \in DOMAIN sessions : DeadlineFires(s)
  \/ ProbeThen
  \/ ProbeCatch
  \/ OpenCatch
  \/ OpenPass
  \/ ScanResumes
  \/ CallerObserves

Spec == Init /\ [][Next]_vars

\* What the host and the event loop do by themselves: SerialPort.list()
\* settles, an open callback is called, a timer that is set fires, a queued
\* promise reaction runs.  The caller's calls and the device's bytes are not
\* among them.
HostStep ==
  \/ ListRejects
  \/ \E ports \in PortLists : ListResolves(ports)
  \/ \E s \in DOMAIN sessions :
       \E message \in LockErrors \cup OtherErrors : OpenCallbackError(s, message)
  \/ \E s \in DOMAIN sessions : OpenCallbackOk(s)
  \/ \E s \in DOMAIN sessions : LockTimerFires(s)
  \/ \E s \in DOMAIN sessions : DeadlineFires(s)
  \/ ProbeThen
  \/ ProbeCatch
  \/ OpenCatch
  \/ OpenPass
  \/ ScanResumes
  \/ CallerObserves

\* The event loop does not stop while the host has something to deliver.
FairSpec == Spec /\ WF_vars(HostStep)

\* ------------------------------------------------------------------ claims

Sess == DOMAIN sessions

\* The lock errors the transport reported to session s.
LockCount(s) ==
  Cardinality({i \in DOMAIN hist[s].errors : hist[s].errors[i] \in LockErrors})

\* The other errors the transport reported to session s.
OtherCount(s) ==
  Cardinality({i \in DOMAIN hist[s].errors : hist[s].errors[i] \in OtherErrors})

\* The SerialPort objects session s made.
HandlesOf(s) == {h \in DOMAIN handles : handles[h].sess = s}

\* The SerialPort object session s made last.
LastHandle(s) == CHOOSE h \in HandlesOf(s) : \A g \in HandlesOf(s) : g <= h

\* C1: when the transport reports 'lock held' on the first K < 5 attempts of
\* an open() call, the next attempt opens and the probe matches, open()
\* resolves with the handle that opened, after exactly K retry timers were
\* set and fired and exactly K + 1 attempts; and at any time every attempt
\* but the first was started by the firing of a retry timer, of which at most
\* one is outstanding and none while an attempt is under way.
C1_RetryThenOpen ==
  \A s \in Sess :
    /\ hist[s].attempts = hist[s].fired + 1
    /\ hist[s].scheduled = hist[s].fired + (IF sessions[s].retry # 0 THEN 1 ELSE 0)
    /\ sessions[s].retry \in {0, LOCK_RETRY_MS}
    /\ sessions[s].retry # 0 => sessions[s].opening = 0
    /\ (sessions[s].probe = "resolved" /\ micro = <<>>)
         => sessions[s].outcome = "resolved"
    /\ sessions[s].outcome = "resolved"
         => /\ LockCount(s) = Len(hist[s].errors)
            /\ LockCount(s) < MAX_OPEN_ATTEMPTS
            /\ hist[s].scheduled = LockCount(s)
            /\ hist[s].fired = LockCount(s)
            /\ hist[s].attempts = LockCount(s) + 1
            /\ sessions[s].outValue = LastHandle(s)
            /\ handles[sessions[s].outValue].opened

\* C1's case: an open() call resolved after four lock errors.
C1_Witness ==
  \E s \in Sess :
    /\ sessions[s].outcome = "resolved"
    /\ LockCount(s) = MAX_OPEN_ATTEMPTS - 1
    /\ hist[s].fired = MAX_OPEN_ATTEMPTS - 1

\* C2: an open() call never makes more than 5 open attempts; when the
\* transport has reported 'lock held' on 5 of them the call is rejected with
\* the lock error of the 5th, no retry timer is outstanding and no attempt is
\* under way.
C2_LockTimeout ==
  \A s \in Sess :
    /\ hist[s].attempts <= MAX_OPEN_ATTEMPTS
    /\ hist[s].scheduled <= MAX_OPEN_ATTEMPTS - 1
    /\ LockCount(s) >= MAX_OPEN_ATTEMPTS
         => /\ sessions[s].retry = 0
            /\ sessions[s].opening = 0
            /\ hist[s].attempts = MAX_OPEN_ATTEMPTS
            /\ sessions[s].promise = "rejected"
            /\ sessions[s].reason = hist[s].errors[MAX_OPEN_ATTEMPTS]
            /\ micro = <<>> => /\ sessions[s].outcome = "rejected"
                               /\ sessions[s].outReason \in LockErrors

\* C2's case: an open() call rejected after five lock errors.
C2_Witness ==
  \E s \in Sess :
    /\ sessions[s].outcome = "rejected"
    /\ LockCount(s) = MAX_OPEN_ATTEMPTS
    /\ hist[s].attempts = MAX_OPEN_ATTEMPTS

\* C3: once an open attempt of an open() call has failed with an error that
\* is not 'lock held', the call is rejected with that error, no retry timer
\* is set for it, no further attempt is made (the attempts are the errors
\* reported), and the probe is never started nor its command written.
C3_OtherErrorIsFinal ==
  \A s \in Sess :
    OtherCount(s) > 0
      => /\ OtherCount(s) = 1
         /\ hist[s].errors[Len(hist[s].errors)] \in OtherErrors
         /\ sessions[s].promise = "rejected"
         /\ sessions[s].reason = hist[s].errors[Len(hist[s].errors)]
         /\ sessions[s].retry = 0
         /\ sessions[s].opening = 0
         /\ hist[s].attempts = Len(hist[s].errors)
         /\ hist[s].scheduled = LockCount(s)
         /\ sessions[s].probe = "none"
         /\ sessions[s].timer = "none"
         /\ \A h \in HandlesOf(s) : handles[h].writes = 0 /\ ~handles[h].opened
         /\ micro = <<>>
              => /\ sessions[s].outcome = "rejected"
                 /\ sessions[s].outReason = hist[s].errors[Len(hist[s].errors)]

\* C3's case: an open() call rejected by a non-lock error on a retry.
C3_Witness ==
  \E s \in Sess :
    /\ sessions[s].outcome = "rejected"
    /\ OtherCount(s) = 1
    /\ LockCount(s) >= 1

\* The error that ended session s: the error its probe failed with when the
\* deadline fired, else the error of the last open attempt.
EndingError(s) ==
  IF hist[s].deadline THEN sessions[s].probeReason
  ELSE hist[s].errors[Len(hist[s].errors)]

\* The first error session s met.
FirstError(s) ==
  IF hist[s].errors # <<>> THEN hist[s].errors[1] ELSE sessions[s].probeReason

\* No SerialPort object of session s is open, and each one the host had
\* opened has had its close() called.
AllClosed(s) ==
  \A h \in HandlesOf(s) :
    /\ ~handles[h].isOpen
    /\ handles[h].opened => handles[h].closeCalls >= 1

\* C4 as claimed: a rejected open() carries the first error the call met, and
\* no port of the call is open.
C4_AsClaimed ==
  \A s \in Sess :
    sessions[s].outcome = "rejected"
      => sessions[s].outReason = FirstError(s) /\ AllClosed(s)

\* C4: a rejected open() carries the error that ended the call (the 5th lock
\* error, the non-lock open error or the probe timeout; lock errors that were
\* retried are not surfaced), and from the rejection on, so when the caller
\* sees it, no port of the call is open and close() was called on the port
\* if it had been opened.
C4_RejectsClosed ==
  \A s \in Sess :
    sessions[s].outcome = "rejected"
      => sessions[s].outReason = EndingError(s) /\ AllClosed(s)

\* C4's case: the caller is about to see the rejection of a call whose port
\* had been opened, after a lock error.
C4_Witness ==
  \E s \in Sess :
    /\ sessions[s].outcome = "rejected"
    /\ micro # <<>> /\ Head(micro) = Reaction("await", s)
    /\ LockCount(s) >= 1
    /\ \E h \in HandlesOf(s) : handles[h].opened

\* The probe's deadline message: the device name, then the port.
IsTimeout(reason) ==
  /\ Len(reason) >= 3
  /\ SubSeq(reason, 1, 3)
       = <<"SerialProber: timeout: ">> \o param.name \o <<" dongle not detected on ">>

\* C5: the listener keeps every byte in arrival order (while the deadline is
\* outstanding the buffer is the bytes delivered so far), and as soon as the
\* bytes delivered before the deadline fired contain probeRsp, however they
\* were split into chunks, the probe has succeeded.
C5_MatchAcrossChunks ==
  \A s \in Sess :
    /\ sessions[s].timer = "pending" => sessions[s].data = hist[s].received
    /\ StartsWith(sessions[s].data, hist[s].received)
    /\ BufferIncludes(hist[s].received, param.probeRsp)
         => sessions[s].probe = "resolved"

\* C5's case: a two-byte probeRsp that came in two 'data' events of one byte.
C5_Witness ==
  \E s \in Sess :
    /\ sessions[s].probe = "resolved"
    /\ sessions[s].outcome = "resolved"
    /\ Len(param.probeRsp) = 2
    /\ hist[s].chunks = 2
    /\ hist[s].received = param.probeRsp

\* C6: a probe fails only by its deadline timer firing, with the timeout
\* message, and only when the bytes delivered do not contain probeRsp; it
\* succeeds only when they do; while it waits the deadline of
\* PROBE_TIMEOUT_MS stays set, whatever data arrives; and when the deadline
\* has fired without a match the probe has failed.
C6_TimeoutOnlyAtDeadline ==
  \A s \in Sess :
    /\ sessions[s].probe = "rejected"
         => /\ hist[s].deadline
            /\ sessions[s].timer = "fired"
            /\ IsTimeout(sessions[s].probeReason)
            /\ ~BufferIncludes(hist[s].received, param.probeRsp)
    /\ sessions[s].probe = "resolved"
         => BufferIncludes(hist[s].received, param.probeRsp)
    /\ sessions[s].probe = "pending"
         => /\ sessions[s].timer = "pending"
            /\ sessions[s].delay = PROBE_TIMEOUT_MS
    /\ (hist[s].deadline /\ ~BufferIncludes(hist[s].received, param.probeRsp))
         => sessions[s].probe = "rejected"

\* C6's case: bytes without probeRsp arrived and the deadline then fired.
C6_Witness ==
  \E s \in Sess :
    /\ sessions[s].probe = "rejected"
    /\ hist[s].deadline
    /\ Len(hist[s].received) = MaxData
    /\ sessions[s].outcome = "rejected"

\* C7: a probe that has succeeded has its deadline timer canceled, and stays
\* so in every later step: the deadline never fires for it, open() is not
\* rejected, and a port of its open() call is closed only by a call of
\* close() the caller makes (a macrotask), never by a promise reaction.
C7_NoLateTimeout ==
  [][\A s \in Sess :
       sessions'[s].probe = "resolved"
         => /\ sessions'[s].timer = "cleared"
            /\ ~hist'[s].deadline
            /\ sessions'[s].promise # "rejected"
            /\ sessions'[s].outcome # "rejected"
            /\ sessions[s].probe \in {"pending", "resolved"}
            /\ \A h \in HandlesOf(s) :
                 (handles[h].isOpen /\ ~handles'[h].isOpen) => micro = <<>>]_vars

\* C7's case: a succeeded open() whose port delivered more data after the
\* match and is still open.
C7_Witness ==
  \E s \in Sess :
    /\ sessions[s].outcome = "resolved"
    /\ sessions[s].timer = "cleared"
    /\ Len(sessions[s].data) > Len(hist[s].received)
    /\ handles[sessions[s].outValue].isOpen

\* The path rule of the data model: a path that starts with /dev/tty.usb has
\* /dev/cu in the place of /dev/tty, any other path is left as it is.
PathRule(chars) ==
  IF StartsWith(chars, DevTtyUsb)
  THEN DevCu \o SubSeq(chars, Len(DevTty) + 1, Len(chars))
  ELSE chars

\* A listed port with the path rule applied.
Normal(port) == [port EXCEPT !["comName"] = Str(PathRule(@.chars))]

\* The filter rule as the spec words it: some group has every key present on
\* the port with a string value that matches the group's pattern.
FilterRule(port, filter) ==
  \E g \in DOMAIN filter :
    \A e \in DOMAIN filter[g] :
      /\ filter[g][e].key \in DOMAIN port
      /\ port[filter[g][e].key].type = "string"
      /\ StringMatch(port[filter[g][e].key].chars, filter[g][e].re)

\* The listed port j passes the filter: it is a candidate of the scan.
Candidate(j) == FilterRule(Normal(scan.listed[j]), param.filter)

\* The candidates of the scan.
Candidates == {j \in DOMAIN scan.listed : Candidate(j)}

\* The open() calls probeAll made, and the one it made for port j.
ScanSess == {s \in Sess : hist[s].origin = "scan"}
SessFor(j) == {s \in ScanSess : hist[s].port = j}

\* probeAll has gone on past the outcome of session s.
Resumed(s) ==
  /\ sessions[s].outcome # "pending"
  /\ \A k \in DOMAIN micro : micro[k] # Reaction("await", s)

\* C8: probeAll is rejected only by the failure of the enumeration, with the
\* enumeration's error and before any port is opened; when the open() of a
\* candidate port was rejected and probeAll went on, probeAll is running or
\* has returned, no result holds a port object of that call, and the scan
\* has gone on to the next listed port that passes the filter (an open()
\* call was made for it) or, when there is none, has returned.
C8_PortFailureSwallowed ==
  /\ scan.state = "rejected" => scan.error = EnumError /\ sessions = <<>>
  /\ \A s \in ScanSess :
       (sessions[s].outcome = "rejected" /\ Resumed(s))
         => /\ scan.state \in {"running", "returned"}
            /\ \A r \in DOMAIN scan.serialPorts :
                 scan.serialPorts[r].serialPort \notin HandlesOf(s)
            /\ LET later == {j \in Candidates : j > hist[s].port}
               IN IF later = {}
                  THEN scan.state = "returned"
                  ELSE \E n \in ScanSess :
                         /\ n > s
                         /\ hist[n].port \in later
                         /\ \A j \in later : hist[n].port <= j
                         /\ \A m \in ScanSess : m > s => n <= m

\* C8's case: probeAll returned a result for a port listed after one whose
\* open() was rejected.
C8_Witness ==
  /\ scan.state = "returned"
  /\ \E s, n \in ScanSess :
       /\ s < n
       /\ sessions[s].outcome = "rejected"
       /\ sessions[n].outcome = "resolved"
       /\ Len(scan.serialPorts) = 1

\* The transport opened the port of session s and delivered probeRsp before
\* the deadline fired.
Responded(s) == BufferIncludes(hist[s].received, param.probeRsp)

\* The results for the listed ports from j on: one for each candidate that
\* responded, with the normalized descriptor and the port object that opened.
RECURSIVE ResultsFrom(_)
ResultsFrom(j) ==
  IF j > Len(scan.listed) THEN <<>>
  ELSE (IF Candidate(j) /\ \E s \in SessFor(j) : Responded(s)
        THEN <<[port |-> Normal(scan.listed[j]),
                serialPort |-> LastHandle(CHOOSE s \in SessFor(j) : TRUE)]>>
        ELSE <<>>) \o ResultsFrom(j + 1)

\* C9: what probeAll returns is, in the order of the listing, exactly one
\* result for each listed port that passes the filter and responded to the
\* probe; and probeAll made exactly one open() call for each listed port that
\* passes the filter and none for another.
C9_ResultsInOrder ==
  scan.state = "returned"
    => /\ scan.serialPorts = ResultsFrom(1)
       /\ \A j \in DOMAIN scan.listed :
            Cardinality(SessFor(j)) = (IF Candidate(j) THEN 1 ELSE 0)
       /\ \A r \in DOMAIN scan.serialPorts :
            handles[scan.serialPorts[r].serialPort].path
              = scan.serialPorts[r].port["comName"].chars

\* C9's case: three listed ports, the first fails the filter, the second
\* passes it and its probe times out, the third passes it and responds.
C9_Witness ==
  /\ scan.state = "returned"
  /\ Len(scan.listed) = 3
  /\ Candidates = {2, 3}
  /\ \E s \in SessFor(2) : hist[s].deadline /\ sessions[s].outcome = "rejected"
  /\ \E s \in SessFor(3) : Responded(s)
  /\ Len(scan.serialPorts) = 1
  /\ scan.serialPorts[1].port = Normal(scan.listed[3])

\* Filters beside those of Params: no group, a group with no key, a group
\* that needs two keys, a pattern anchored at the end.
FilterPool ==
  {FilterVendorOrProduct, FilterVendorAndPath, <<>>, << <<>> >>,
   << <<Entry("product", Re(<<"C", "P", "2", "1", "0">>, FALSE, FALSE)),
        Entry("vendor", Re(<<"e", "r">>, FALSE, TRUE))>>,
      <<Entry("comName", Re(<<"B">>, FALSE, TRUE))>> >>}

\* C10: when the listing arrives, serialPortMatchesFilter answers as the
\* filter rule does on the normalized descriptor, for every listed port (as
\* listed and as rewritten) under the prober's filter and for every port the
\* host may list under every filter of FilterPool; and every step of
\* probeAll that makes a port object (an open attempt) makes it for an open()
\* call on a listed port that passes the filter, with that port's
\* normalized path.
C10_FilterRule ==
  [][/\ (scan.state = "listing" /\ scan'.state # "listing")
          => /\ \A j \in DOMAIN scan'.listed :
                  /\ serialPortMatchesFilter(scan'.listed[j], param.filter)
                       <=> FilterRule(Normal(scan'.listed[j]), param.filter)
                  /\ serialPortMatchesFilter(scan'.ports[j], param.filter)
                       <=> FilterRule(Normal(scan'.listed[j]), param.filter)
             /\ \A port \in PortPool : \A f \in FilterPool :
                  /\ serialPortMatchesFilter(port, f)
                       <=> FilterRule(Normal(port), f)
                  /\ serialPortMatchesFilter(Normal(port), f)
                       <=> FilterRule(Normal(port), f)
     /\ \A h \in DOMAIN handles' \ DOMAIN handles :
          scan'.state # "idle"
            => /\ hist'[handles'[h].sess].origin = "scan"
               /\ hist'[handles'[h].sess].port \in DOMAIN scan'.listed
               /\ FilterRule(Normal(scan'.listed[hist'[handles'[h].sess].port]),
                             param.filter)
               /\ handles'[h].path
                    = PathRule(scan'.listed[hist'[handles'[h].sess].port]["comName"].chars)
    ]_vars

\* C10's case: probeAll returned after it listed a port without the key of
\* one group and with a number under the key of the other, which it did not
\* open, and a port that passes the filter, which it opened.
C10_Witness ==
  /\ scan.state = "returned"
  /\ param.filter = FilterVendorOrProduct
  /\ \E j, k \in DOMAIN scan.listed :
       /\ scan.listed[j] = PortCom
       /\ SessFor(j) = {}
       /\ SessFor(k) # {}
       /\ \E h \in HandlesOf(CHOOSE s \in SessFor(k) : TRUE) : handles[h].opened

\* An open() call is attempting to open (an attempt under way or a retry timer
\* outstanding) or probing.
Active(s) ==
  sessions[s].opening # 0 \/ sessions[s].retry # 0 \/ sessions[s].probe = "pending"

\* A timer of an open() call is pending: its retry timer or its deadline.
TimerPending(s) == sessions[s].retry # 0 \/ sessions[s].timer = "pending"

\* C11: during probeAll at most one open() call of the scan is attempting to
\* open or probing and at most one has a timer pending; and when the scan has
\* made an open() call for a later port, every open() call it made before has
\* settled and been taken up by the loop, is neither attempting nor probing,
\* has no timer pending, and was for an earlier port of the listing.
C11_OneAtATime ==
  /\ Cardinality({s \in ScanSess : Active(s)}) <= 1
  /\ Cardinality({s \in ScanSess : TimerPending(s)}) <= 1
  /\ \A s \in ScanSess :
       sessions[s].outcome = "pending" => scan.state = "running" /\ scan.i = hist[s].port
  /\ \A s, n \in ScanSess :
       s < n => /\ sessions[s].outcome # "pending"
                /\ Resumed(s)
                /\ ~Active(s)
                /\ ~TimerPending(s)
                /\ hist[s].port < hist[n].port

\* C11's case: the scan is probing its second candidate, with the deadline
\* pending, after the open() of the first resolved.
C11_Witness ==
  \E s, n \in ScanSess :
    /\ s < n
    /\ sessions[s].outcome = "resolved"
    /\ sessions[n].probe = "pending"
    /\ sessions[n].timer = "pending"

\* C12: in every reachable state, close() called twice leaves what close()
\* called once leaves, and the two calls together call the close of at most
\* one port object, once; without a held port object, or with one that is not
\* open, close() changes nothing; with an open one it closes it and forgets
\* it.
C12_CloseIdempotent ==
  LET now == [handles |-> handles, serialPort |-> serialPort,
              portName |-> portName]
      once == CloseOf(handles, serialPort, portName)
      twice == CloseOf(once.handles, once.serialPort, once.portName)
  IN /\ twice = once
     /\ \A h \in DOMAIN handles :
          twice.handles[h].closeCalls <= handles[h].closeCalls + 1
     /\ Cardinality({h \in DOMAIN handles :
                       twice.handles[h].closeCalls # handles[h].closeCalls}) <= 1
     /\ (serialPort = 0 \/ ~handles[serialPort].isOpen) => once = now
     /\ (serialPort # 0 /\ handles[serialPort].isOpen)
          => /\ ~once.handles[serialPort].isOpen
             /\ once.handles[serialPort].closeCalls
                  = handles[serialPort].closeCalls + 1
             /\ once.serialPort = 0
             /\ \A h \in DOMAIN handles :
                  h # serialPort => once.handles[h] = handles[h]

\* C12's case: the caller has called close() on the port of an open() that
\* had resolved, and may call it again.
C12_Witness ==
  /\ micro = <<>>
  /\ serialPort = 0
  /\ portName = Null
  /\ \E h \in DOMAIN handles :
       /\ handles[h].closeCalls = 1
       /\ ~handles[h].isOpen
       /\ sessions[handles[h].sess].outcome = "resolved"

\* Paths beside those of PortPool: the bare prefix, a path that holds
\* '/dev/tty' twice, one that holds the prefix but not at its start, a
\* '/dev/tty' path that is not a '/dev/tty.usb' one, the empty path.
PathsToNormalize ==
  {port["comName"].chars : port \in PortPool}
    \cup {DevTtyUsb, DevTtyUsb \o DevTty, <<"x">> \o DevTtyUsb \o <<"A">>,
          DevTty \o <<"U", "S", "B", "0">>, <<>>}

\* A descriptor with the path chars.
PathPort(chars) ==
  [k \in {"comName", "vendor"} |->
     IF k = "comName" THEN Str(chars) ELSE Str(<<"F", "T", "D", "I">>)]

\* C13: when the listing arrives, for every path of PathsToNormalize the
\* rewriting of probeAll gives the path rule's path (/dev/cu in the place of
\* /dev/tty when the path starts with /dev/tty.usb, the path itself
\* otherwise) and leaves the rest of the descriptor alone, and rewriting
\* again, in probeAll or in serialPortMatchesFilter, changes nothing more;
\* and every step of probeAll that makes a port object makes it with the
\* path the descriptor had when the filter was evaluated on it, which is the
\* path rule's path of the listed port, and is the path now in the ports
\* array.
C13_PathNormalization ==
  [][/\ (scan.state = "listing" /\ scan'.state # "listing")
          => \A chars \in PathsToNormalize :
               /\ NormalizeComName(PathPort(chars))
                    = [PathPort(chars) EXCEPT !["comName"] = Str(PathRule(chars))]
               /\ NormalizeComName(NormalizeComName(PathPort(chars)))
                    = NormalizeComName(PathPort(chars))
               /\ FilterNormalizeComName(NormalizeComName(PathPort(chars)))
                    = NormalizeComName(PathPort(chars))
               /\ FilterNormalizeComName(PathPort(chars))
                    = NormalizeComName(PathPort(chars))
     /\ \A h \in DOMAIN handles' \ DOMAIN handles :
          scan'.state # "idle"
            => /\ handles'[h].path
                    = FilterNormalizeComName(NormalizeComName(
                        scan'.listed[hist'[handles'[h].sess].port]))["comName"].chars
               /\ handles'[h].path
                    = PathRule(scan'.listed[hist'[handles'[h].sess].port]["comName"].chars)
               /\ handles'[h].path
                    = scan'.ports[hist'[handles'[h].sess].port]["comName"].chars
    ]_vars

\* C13's case: a port listed as /dev/tty.usbA passed a filter on /dev/cu and
\* was opened as /dev/cu.usbA.
C13_Witness ==
  /\ param.filter = FilterVendorAndPath
  /\ \E h \in DOMAIN handles :
       /\ hist[handles[h].sess].origin = "scan"
       /\ scan.listed[hist[handles[h].sess].port]["comName"].chars
            = DevTtyUsb \o <<"A">>
       /\ handles[h].path = DevCu \o <<".", "u", "s", "b", "A">>
       /\ handles[h].opened

\* C14: once the caller has called close() while an open() call of its own
\* waited on its retry timer, no open attempt of that call is under way and
\* no port object of the call is ever opened.
C14_AbandonCancelsRetry ==
  \A s \in Sess :
    hist[s].abandoned
      => /\ sessions[s].opening = 0
         /\ \A h \in HandlesOf(s) : ~handles[h].opened

\* C15: once an open() call has resolved or rejected, this.serialPort is not
\* a port object of that call: after success it is not the handle the caller
\* was given, after a failure it is cleared.
C15_HandleReleased ==
  \A s \in Sess :
    /\ sessions[s].outcome = "resolved" => serialPort # sessions[s].outValue
    /\ sessions[s].outcome = "rejected" => serialPort \notin HandlesOf(s)

\* C16: of the port objects of one open() call at most one was opened and
\* at most one was written to, the last one made; probeCmd was written to a
\* port object exactly once when the host opened it and never otherwise; and
\* once the probe has failed no open attempt of the call is under way, no
\* retry timer is set, and the attempts made are the errors reported and the
\* one that opened.
C16_OneProbeWrite ==
  \A s \in Sess :
    /\ Cardinality(HandlesOf(s)) = hist[s].attempts
    /\ Cardinality({h \in HandlesOf(s) : handles[h].opened}) <= 1
    /\ \A h \in HandlesOf(s) :
         /\ handles[h].writes = (IF handles[h].opened THEN 1 ELSE 0)
         /\ handles[h].opened => h = LastHandle(s)
         /\ handles[h].opened => sessions[s].opening = 0 /\ sessions[s].retry = 0
    /\ sessions[s].probe # "none"
         => /\ \E h \in HandlesOf(s) : handles[h].opened
            /\ sessions[s].opening = 0
            /\ sessions[s].retry = 0
            /\ hist[s].attempts = Len(hist[s].errors) + 1

\* C16's case: an open() call that opened the port on its second attempt,
\* wrote probeCmd once, and was rejected by the probe's timeout.
C16_Witness ==
  \E s \in Sess :
    /\ sessions[s].outcome = "rejected"
    /\ hist[s].deadline
    /\ hist[s].attempts = 2
    /\ handles[LastHandle(s)].writes = 1
    /\ micro = <<>>

\* The phases of an open() call: an open attempt is under way or the retry
\* timer is outstanding; the probe waits for its response; the probe has
\* matched; the executor's promise or the probe has been rejected.
AttemptingOpen(s) == sessions[s].opening # 0 \/ sessions[s].retry # 0
Probing(s) == sessions[s].probe = "pending"
Succeeded(s) == sessions[s].probe = "resolved"
Failed(s) == sessions[s].promise = "rejected" \/ sessions[s].probe = "rejected"

\* C17: in every reachable state an open() call does not have both its retry
\* timer and its deadline timer pending, has at most one retry timer
\* outstanding, and has none while an attempt is under way; it is in exactly
\* one of the four phases; and a failed call has no port object open once
\* open() has rejected, so in every state between two turns of the event
\* loop.
C17_OnePhaseOneTimer ==
  \A s \in Sess :
    /\ ~(sessions[s].retry # 0 /\ sessions[s].timer = "pending")
    /\ hist[s].scheduled - hist[s].fired = (IF sessions[s].retry # 0 THEN 1 ELSE 0)
    /\ ~(sessions[s].retry # 0 /\ sessions[s].opening # 0)
    /\ Cardinality({ph \in {"attempting", "probing", "succeeded", "failed"} :
                      \/ ph = "attempting" /\ AttemptingOpen(s)
                      \/ ph = "probing" /\ Probing(s)
                      \/ ph = "succeeded" /\ Succeeded(s)
                      \/ ph = "failed" /\ Failed(s)}) = 1
    /\ (Failed(s) /\ (micro = <<>> \/ sessions[s].outcome = "rejected"))
         => /\ sessions[s].outcome = "rejected"
            /\ AllClosed(s)

\* C17's case: a call that waited on a retry timer, then probed, failed, and
\* has its port closed.
C17_Witness ==
  \E s \in Sess :
    /\ Failed(s)
    /\ micro = <<>>
    /\ hist[s].fired >= 1
    /\ \E h \in HandlesOf(s) : handles[h].opened /\ handles[h].closeCalls = 1

\* An open() call is pending, or probeAll has been called and has neither
\* returned nor been rejected.
Busy ==
  \/ \E s \in Sess : sessions[s].outcome = "pending"
  \/ scan.state \in {"listing", "running"}

\* C18: when the host keeps delivering what is outstanding (callbacks,
\* timers, promise reactions), then whatever the transport answers and
\* whenever the caller calls close(), from any state in which an open() call
\* is pending or a probeAll under way a state is reached in which every
\* open() call made has resolved or rejected and probeAll has returned or
\* been rejected: no call stays pending for ever.
C18_OpenSettles == Busy ~> ~Busy

\* C18's case: probeAll has returned after an open() that was rejected on
\* its fifth lock error and an open() whose port opened and whose probe
\* timed out.
C18_Witness ==
  /\ scan.state = "returned"
  /\ \E s \in ScanSess :
       sessions[s].outcome = "rejected" /\ LockCount(s) = MAX_OPEN_ATTEMPTS
  /\ \E s \in ScanSess :
       sessions[s].outcome = "rejected" /\ hist[s].deadline

\* C19: in the step in which probeAll returns, every port object of its
\* results is open; and a step that closes the port object an open() call
\* of the scan resolved with is a close() called by the caller while that
\* port object is this.serialPort, never the close() that the rejection of
\* another open() call runs.
C19_ResultsStayOpen ==
  [][/\ (scan'.state = "returned" /\ scan.state # "returned")
          => \A r \in DOMAIN scan'.serialPorts :
               handles'[scan'.serialPorts[r].serialPort].isOpen
     /\ \A s \in Sess :
          (/\ hist[s].origin = "scan"
           /\ sessions[s].outcome = "resolved"
           /\ handles[sessions[s].outValue].isOpen
           /\ ~handles'[sessions[s].outValue].isOpen)
            => /\ micro = <<>>
               /\ serialPort = sessions[s].outValue
               /\ scan.state = "returned"
    ]_vars

\* C19's case: probeAll has returned the port of its first candidate, still
\* open, after the second candidate's port was opened, timed out on the
\* probe and was closed.
C19_Witness ==
  /\ scan.state = "returned"
  /\ Len(scan.serialPorts) = 1
  /\ handles[scan.serialPorts[1].serialPort].isOpen
  /\ \E s, n \in ScanSess :
       /\ s < n
       /\ sessions[s].outValue = scan.serialPorts[1].serialPort
       /\ sessions[n].outcome = "rejected"
       /\ hist[n].deadline
       /\ handles[LastHandle(n)].closeCalls = 1

\* C20: once an open() call has resolved or rejected, whether or not the
\* caller called close() meanwhile, no retry timer and no deadline timer of
\* the call is pending, every retry timer it set has fired, and no open
\* attempt of it is under way; so while a later open() call is pending no
\* timer of an earlier one is.
C20_NoTimerAfterSettle ==
  /\ \A s \in Sess :
       sessions[s].outcome # "pending"
         => /\ ~TimerPending(s)
            /\ hist[s].scheduled = hist[s].fired
            /\ sessions[s].opening = 0
            /\ sessions[s].timer \in {"none", "cleared", "fired"}
            /\ sessions[s].timer = "fired" <=> hist[s].deadline
  /\ \A s, n \in Sess :
       (s < n /\ sessions[n].outcome = "pending") => ~TimerPending(s)

\* C20's case: a call that had set a retry timer and then the deadline timer
\* has been rejected, and a later call has a timer pending.
C20_Witness ==
  \E s, n \in Sess :
    /\ s < n
    /\ sessions[s].outcome = "rejected"
    /\ hist[s].fired >= 1
    /\ hist[s].deadline
    /\ TimerPending(n)

====
